---- MODULE Spec2Model ----
(***************************************************************************)
(* ms-find: mustSupport element extraction and usage counting.            *)
(*                                                                         *)
(* Python strings are modelled as sequences of one-character strings, so   *)
(* that split, startswith, endswith, `in` and strip are computed and not   *)
(* assumed.  JSON values are tagged records [k |-> kind, v |-> payload];   *)
(* a JSON object is a function from keys (strings) to JSON values.         *)
(***************************************************************************)
EXTENDS Integers, Sequences, FiniteSets, TLC

VARIABLES
    \* check_element_populated (src/main.py:77-154)
    resource,        \* the resource argument
    element_path,    \* the path argument (a string)
    extension_uri,   \* the extension_uri argument (null for None)
    path_parts,      \* the segments to walk (after the prefix is dropped)
    i,               \* number of loop iterations started so far
    prev_obj,        \* current_obj before the last loop iteration
    current_obj,     \* the cursor
    stripped,        \* whether the resource-type prefix was dropped
    step_st,         \* how the last loop iteration ended: "ok" | "false" | "raise"
    mpc,             \* "split" | "walk" | "done"
    result           \* "none" | "true" | "false" | "raise"

VARIABLES
    \* the loop body of parse_structure_definitions (src/main.py:198-233)
    element,         \* the element of the StructureDefinition being looked at
    sd_record,       \* the records appended for it (none or one)
    ppc              \* "element" | "done"

pvars == <<element, sd_record, ppc>>

VARIABLES
    \* the environment of a run of main (src/main.py:286-379)
    config_ok,       \* config/config.json can be read and has an "init" entry
    cache_ok,        \* get_npm_packages returns (the package cache root exists)
    staged,          \* the package folders get_npm_packages returns
    instances,       \* the instances directory: [exists, json_files]
    write_ok,        \* the report file can be opened for writing
    \* the state of main and of analyze_instances
    pc,              \* position in main / analyze_instances
    npm_path_list,
    must_support_elements,
    fi,              \* number of instance files opened so far
    resources,       \* the resources of the last file opened
    ei,              \* position of the element loop (line 56)
    ri,              \* position of the resource loop (line 61)
    report,          \* the rows of the report file, <<>> while it is not written
    exit_status,     \* "running" | "0" | "1"
    run,             \* which call of analyze_instances this is
    first_run        \* must_support_elements as the first call left them

avars == <<config_ok, cache_ok, staged, instances, write_ok, pc, npm_path_list,
           must_support_elements, fi, resources, ei, ri, report, exit_status,
           run, first_run>>

mvars == <<resource, element_path, extension_uri, path_parts, i, prev_obj,
           current_obj, stripped, step_st, mpc, result>>

VARIABLES
    \* get_fhir_packages (src/getter.py:12-94) and the folders it works on
    packages,            \* the "packages" entry of the config: [name, version] records
    fhir_cache_exists,   \* the configured cache root exists
    cache,               \* the folders of the cache root, in the order glob lists
                         \* them: [base, mtime] records
    mode,                \* "clean" | "keep"
    local,               \* the folders of <data_dir>/packages: [base, from] records,
                         \* from = the cache folder copied, <<>> if left by an
                         \* earlier run
    gi,                  \* position of the loop over packages (line 45)
    cache_package_path,  \* basename of the folder selected for packages[gi]
    path_list,           \* basenames of the local folders returned
    gpc                  \* "setup" | "loop" | "stage" | "done" | "raised"

gvars == <<packages, fhir_cache_exists, cache, mode, local, gi, cache_package_path,
           path_list, gpc>>

vars == <<mvars, pvars, avars, gvars>>

\* what the actions of each part leave alone
notMatch == <<pvars, avars, gvars>>
notParse == <<mvars, avars, gvars>>
notMain == <<mvars, pvars, gvars>>
notGetter == <<mvars, pvars, avars>>

----------------------------------------------------------------------------
(* Bounds of the model.                                                    *)

MaxArr == 2
MaxSegs == 3

----------------------------------------------------------------------------
(* Python str operations.                                                   *)

StartsWith(s, p) == Len(p) <= Len(s) /\ SubSeq(s, 1, Len(p)) = p

EndsWith(s, p) == Len(p) <= Len(s) /\ SubSeq(s, Len(s) - Len(p) + 1, Len(s)) = p

\* Python `p in s` for strings
Contains(s, p) == \E q \in 1..(Len(s) - Len(p) + 1) : SubSeq(s, q, q + Len(p) - 1) = p

\* first position >= from at which sep occurs in s, 0 when there is none
FindFrom(s, sep, from) ==
    LET hits == {q \in from..(Len(s) - Len(sep) + 1) : SubSeq(s, q, q + Len(sep) - 1) = sep}
    IN IF hits = {} THEN 0 ELSE CHOOSE q \in hits : \A j \in hits : q <= j

\* Python s.split(sep), sep a non-empty string
RECURSIVE Split(_, _)
Split(s, sep) ==
    LET at == FindFrom(s, sep, 1)
    IN IF at = 0 THEN <<s>>
       ELSE <<SubSeq(s, 1, at - 1)>> \o Split(SubSeq(s, at + Len(sep), Len(s)), sep)

IsSpace(c) == c \in {" ", "\t", "\n"}

\* Python s.strip()
RECURSIVE Strip(_)
Strip(s) ==
    IF s = <<>> THEN s
    ELSE IF IsSpace(Head(s)) THEN Strip(Tail(s))
    ELSE IF IsSpace(s[Len(s)]) THEN Strip(SubSeq(s, 1, Len(s) - 1))
    ELSE s

\* sep.join(parts)
RECURSIVE Join(_, _)
Join(parts, sep) ==
    IF parts = <<>> THEN <<>>
    ELSE IF Len(parts) = 1 THEN parts[1]
    ELSE parts[1] \o sep \o Join(Tail(parts), sep)

----------------------------------------------------------------------------
(* JSON values as Python's json.load returns them.                          *)

null == [k |-> "null"]
Bool(b) == [k |-> "bool", v |-> b]
Num(n) == [k |-> "num", v |-> n]
Str(s) == [k |-> "str", v |-> s]
Arr(a) == [k |-> "arr", v |-> a]
Obj(o) == [k |-> "obj", v |-> o]
EmptyObj == Obj(<<>>)

IsDict(x) == x.k = "obj"
IsList(x) == x.k = "arr"
IsStr(x) == x.k = "str"
IsNone(x) == x.k = "null"

\* key in d
HasKey(d, key) == key \in DOMAIN d.v

\* d.get(key, default)
Get(d, key, default) == IF HasKey(d, key) THEN d.v[key] ELSE default

\* Python truthiness of a value
Truthy(x) ==
    CASE x.k = "null" -> FALSE
      [] x.k = "bool" -> x.v
      [] x.k = "num" -> x.v # 0
      [] OTHER -> x.v # <<>>

\* sequences over S of length lo..hi
SeqsOf(S, lo, hi) == UNION {[1..n -> S] : n \in lo..hi}

----------------------------------------------------------------------------
(* The parts of the state a specification does not use stay idle.           *)

MatchIdle ==
    /\ resource = null /\ element_path = <<>> /\ extension_uri = null
    /\ path_parts = <<>> /\ i = 0 /\ prev_obj = null /\ current_obj = null
    /\ stripped = FALSE /\ step_st = "none" /\ mpc = "idle" /\ result = "none"

ParseIdle == element = null /\ sd_record = <<>> /\ ppc = "idle"

MainIdle ==
    /\ config_ok = TRUE /\ cache_ok = TRUE /\ staged = <<>>
    /\ instances = [exists |-> FALSE, json_files |-> <<>>] /\ write_ok = TRUE
    /\ pc = "idle" /\ npm_path_list = <<>> /\ must_support_elements = <<>>
    /\ fi = 0 /\ resources = <<>> /\ ei = 1 /\ ri = 1 /\ report = <<>>
    /\ exit_status = "running" /\ run = 0 /\ first_run = <<>>

GetterIdle ==
    /\ packages = <<>> /\ fhir_cache_exists = TRUE /\ cache = <<>> /\ mode = "clean"
    /\ local = {} /\ gi = 1 /\ cache_package_path = <<>> /\ path_list = <<>>
    /\ gpc = "idle"

----------------------------------------------------------------------------
(* String literals of the source and of the inputs.                         *)

DOT == <<".">>
COLON == <<":">>
s_extension == <<"e", "x", "t", "e", "n", "s", "i", "o", "n">>
s_extension_colon == s_extension \o COLON
s_url == <<"u", "r", "l">>
s_sliceName == <<"s", "l", "i", "c", "e", "N", "a", "m", "e">>
s_resourceType == <<"r", "e", "s", "o", "u", "r", "c", "e", "T", "y", "p", "e">>
s_Patient == <<"P", "a", "t", "i", "e", "n", "t">>
s_Group == <<"G", "r", "o", "u", "p">>
s_name == <<"n", "a", "m", "e">>
s_given == <<"g", "i", "v", "e", "n">>
s_Jo == <<"J", "o">>
s_path == <<"p", "a", "t", "h">>
s_short == <<"s", "h", "o", "r", "t">>
s_min == <<"m", "i", "n">>
s_max == <<"m", "a", "x">>
s_type == <<"t", "y", "p", "e">>
s_code == <<"c", "o", "d", "e">>
s_profile == <<"p", "r", "o", "f", "i", "l", "e">>
s_mustSupport == <<"m", "u", "s", "t", "S", "u", "p", "p", "o", "r", "t">>
s_Extension == <<"E", "x", "t", "e", "n", "s", "i", "o", "n">>
s_extensions == s_extension \o <<"s">>
s_value == <<"v", "a", "l", "u", "e">>
s_Unknown == <<"U", "n", "k", "n", "o", "w", "n">>
s_Bundle == <<"B", "u", "n", "d", "l", "e">>
s_entry == <<"e", "n", "t", "r", "y">>
s_resource == <<"r", "e", "s", "o", "u", "r", "c", "e">>
s_StructureDefinition == <<"S", "t", "r", "u", "c", "t", "u", "r", "e">>
                            \o <<"D", "e", "f", "i", "n", "i", "t", "i", "o", "n">>
s_differential == <<"d", "i", "f", "f", "e", "r", "e", "n", "t", "i", "a", "l">>
s_snapshot == <<"s", "n", "a", "p", "s", "h", "o", "t">>
s_element == <<"e", "l", "e", "m", "e", "n", "t">>
s_title == <<"t", "i", "t", "l", "e">>
s_g == <<"g">>
s_ValueSet == <<"V", "a", "l", "u", "e", "S", "e", "t">>
s_bp == <<"b", "p">>
s_u_bp == <<"u", "/", "b", "p">>
s_o_bp == <<"o", "/", "b", "p">>
s_u_zz == <<"u", "/", "z", "z">>

----------------------------------------------------------------------------
(* check_element_populated, src/main.py:77-154.                             *)

\* the outcome of one loop iteration: the new cursor, `return False`, or an
\* exception leaving the function
Ok(c) == [st |-> "ok", cur |-> c]
Fail == [st |-> "false", cur |-> null]
Raise == [st |-> "raise", cur |-> null]

\* least element of a non-empty set of integers
Least(S) == CHOOSE m \in S : \A n \in S : m <= n

\* lines 83-85: split on '.', drop a leading resource type
DropsPrefix(res, path) ==
    LET parts == Split(path, DOT)
    IN Len(parts) > 1 /\ Str(parts[1]) = Get(res, s_resourceType, null)

PathParts(res, path) ==
    LET parts == Split(path, DOT)
    IN IF DropsPrefix(res, path) THEN Tail(parts) ELSE parts

\* lines 105-114: what the loop body does with one entry of the array:
\* "found" (assign and break), "skip", or "raise" (AttributeError: the url
\* is not a str and has no endswith)
ExtVerdict(ext, uri, extension_name) ==
    IF ~IsDict(ext) THEN "skip"
    ELSE IF Truthy(uri) /\ Get(ext, s_url, null) = uri THEN "found"
    ELSE LET u == Get(ext, s_url, Str(<<>>))
         IN IF ~IsStr(u) THEN "raise"
            ELSE IF EndsWith(u.v, extension_name)
                    \/ Get(ext, s_sliceName, null) = Str(extension_name)
                 THEN "found"
                 ELSE "skip"

\* lines 94-119: segment `extension:<sliceName>`
ExtensionSliceStep(cur, seg, uri) ==
    LET extension_name == Split(seg, COLON)[2]
        extensions == Get(cur, s_extension, Arr(<<>>))
    IN IF ~IsDict(cur) THEN Fail
       ELSE IF ~IsList(extensions) THEN Fail
       ELSE LET stops == {n \in 1..Len(extensions.v) :
                            ExtVerdict(extensions.v[n], uri, extension_name) # "skip"}
            IN IF stops = {} THEN Fail
               ELSE IF ExtVerdict(extensions.v[Least(stops)], uri, extension_name) = "raise"
                    THEN Raise
                    ELSE Ok(extensions.v[Least(stops)])

\* lines 121-125: segment `extension`
BareExtensionStep(cur) ==
    IF ~IsDict(cur) \/ ~HasKey(cur, s_extension) THEN Fail
    ELSE Ok(cur.v[s_extension])

\* mutant: on an array the last entry containing the field is taken
FieldStep_LastEntry(cur, seg) ==
    IF IsList(cur)
    THEN LET has == {n \in 1..Len(cur.v) : IsDict(cur.v[n]) /\ HasKey(cur.v[n], seg)}
         IN IF has = {} THEN Fail
            ELSE Ok(cur.v[CHOOSE m \in has : \A n \in has : n <= m].v[seg])
    ELSE IF IsDict(cur)
    THEN IF ~HasKey(cur, seg) THEN Fail ELSE Ok(cur.v[seg])
    ELSE Fail

\* lines 127-144: any other segment
FieldStep(cur, seg) ==
    IF IsList(cur)
    THEN LET has == {n \in 1..Len(cur.v) : IsDict(cur.v[n]) /\ HasKey(cur.v[n], seg)}
         IN IF has = {} THEN Fail ELSE Ok(cur.v[Least(has)].v[seg])
    ELSE IF IsDict(cur)
    THEN IF ~HasKey(cur, seg) THEN Fail ELSE Ok(cur.v[seg])
    ELSE Fail

\* lines 89-144: one iteration of the loop
LoopStep(cur, seg, uri) ==
    IF IsNone(cur) THEN Fail
    ELSE IF StartsWith(seg, s_extension_colon) THEN ExtensionSliceStep(cur, seg, uri)
    ELSE IF seg = s_extension THEN BareExtensionStep(cur)
    ELSE FieldStep(cur, seg)

\* mutant: the final test is Python truthiness
IsPopulated_Truthy(cur) == Truthy(cur)

\* lines 146-154: the final test
IsPopulated(cur) ==
    IF IsNone(cur) THEN FALSE
    ELSE IF IsStr(cur) /\ Strip(cur.v) = <<>> THEN FALSE
    ELSE IF IsList(cur) /\ Len(cur.v) = 0 THEN FALSE
    ELSE TRUE

BoolResult(b) == IF b THEN "true" ELSE "false"

\* the loop and the final test over the segments parts, from cursor cur
RECURSIVE WalkParts(_, _, _)
WalkParts(cur, parts, uri) ==
    IF parts = <<>> THEN BoolResult(IsPopulated(cur))
    ELSE LET r == LoopStep(cur, Head(parts), uri)
         IN IF r.st = "ok" THEN WalkParts(r.cur, Tail(parts), uri) ELSE r.st

\* the whole function: "true", "false", or "raise"
check_element_populated(res, path, uri) ==
    WalkParts(res, PathParts(res, path), uri)

----------------------------------------------------------------------------
(* The element loop of parse_structure_definitions, src/main.py:198-233.    *)
(* Element paths and slice names are strings, `type` is absent or an array  *)
(* of objects and `profile` absent or an array, as in a StructureDefinition.*)

\* str() of a value inside an f-string
PyStr(x) ==
    CASE IsStr(x) -> x.v
      [] x.k = "num" /\ x.v \in 0..9 ->
            <<(<<"0", "1", "2", "3", "4", "5", "6", "7", "8", "9">>)[x.v + 1]>>
      [] IsNone(x) -> <<"N", "o", "n", "e">>

\* line 199
IsMustSupport(el) == Truthy(Get(el, s_mustSupport, Bool(FALSE)))

\* line 200
RawPath(el) == Get(el, s_path, Str(<<>>)).v

\* line 212: 'extension' in element_path and slice_name
IsSliced(el) ==
    Contains(RawPath(el), s_extension) /\ Truthy(Get(el, s_sliceName, null))

\* lines 214-218: the first profile of the first Extension type that has one
ExtensionUriOf(el) ==
    LET types == Get(el, s_type, null)
    IN IF ~Truthy(types) THEN null
       ELSE LET hits == {n \in 1..Len(types.v) :
                           /\ Get(types.v[n], s_code, null) = Str(s_Extension)
                           /\ Truthy(Get(types.v[n], s_profile, null))}
            IN IF hits = {} THEN null
               ELSE types.v[Least(hits)].v[s_profile].v[1]

\* lines 221-222
SlicedPath(el) ==
    Split(RawPath(el), DOT \o s_extension)[1]
        \o DOT \o s_extension_colon \o PyStr(Get(el, s_sliceName, null))

\* lines 204-206
CardinalityOf(el) ==
    PyStr(Get(el, s_min, Num(0))) \o <<".", ".">> \o PyStr(Get(el, s_max, Str(<<"1">>)))

\* lines 200-232: the record appended for a mustSupport element of a
\* StructureDefinition with the given type, title and url
ElementRecord(el, sd_type, sd_title, sd_url) ==
    [structure_definition_type |-> sd_type,
     profile_name |-> sd_title,
     element_path |-> IF IsSliced(el) THEN SlicedPath(el) ELSE RawPath(el),
     short_description |-> Get(el, s_short, Str(<<>>)),
     cardinality |-> CardinalityOf(el),
     profile_url |-> sd_url,
     extension_uri |-> IF IsSliced(el) THEN ExtensionUriOf(el) ELSE null]

\* lines 198-233: the records of a list of elements, in order
RECURSIVE ElementRecords(_, _, _, _)
ElementRecords(els, sd_type, sd_title, sd_url) ==
    IF els = <<>> THEN <<>>
    ELSE (IF IsMustSupport(Head(els))
          THEN <<ElementRecord(Head(els), sd_type, sd_title, sd_url)>>
          ELSE <<>>)
         \o ElementRecords(Tail(els), sd_type, sd_title, sd_url)

----------------------------------------------------------------------------
(* parse_structure_definitions, src/main.py:156-242.                        *)
(* A file is [read, content]: read is "ok" (json.load returns content),     *)
(* "malformed" (JSONDecodeError), "missing" (FileNotFoundError) or          *)
(* "unreadable" (any other error of open or decoding, e.g. PermissionError).*)

OkFile(c) == [read |-> "ok", content |-> c]
MalformedFile == [read |-> "malformed", content |-> null]
MissingFile == [read |-> "missing", content |-> null]
UnreadableFile == [read |-> "unreadable", content |-> null]

\* lines 193-195: the element list, differential first, then snapshot;
\* [st |-> "raise"] when a section is not an object
SdElements(sd) ==
    LET differential == Get(sd, s_differential, EmptyObj)
        snapshot == Get(sd, s_snapshot, EmptyObj)
    IN IF ~IsDict(differential) THEN [st |-> "raise", els |-> <<>>]
       ELSE IF Truthy(Get(differential, s_element, Arr(<<>>)))
       THEN [st |-> "ok", els |-> Get(differential, s_element, Arr(<<>>))]
       ELSE IF ~IsDict(snapshot) THEN [st |-> "raise", els |-> <<>>]
       ELSE [st |-> "ok", els |-> Get(snapshot, s_element, Arr(<<>>))]

\* lines 178-240: one file; st is "ok", or "raise" when an exception other
\* than JSONDecodeError and FileNotFoundError leaves the function
ParseFile(file) ==
    IF file.read \in {"malformed", "missing"} THEN [st |-> "ok", recs |-> <<>>]
    ELSE IF file.read = "unreadable" THEN [st |-> "raise", recs |-> <<>>]
    ELSE LET sd == file.content
         IN IF ~IsDict(sd) THEN [st |-> "raise", recs |-> <<>>]
            ELSE IF Get(sd, s_resourceType, null) # Str(s_StructureDefinition)
            THEN [st |-> "ok", recs |-> <<>>]
            ELSE LET sd_name == Get(sd, s_name, Str(s_Unknown))
                     sd_title == Get(sd, s_title, sd_name)
                     sd_type == Get(sd, s_type, Str(s_Unknown))
                     sd_url == Get(sd, s_url, Str(<<>>))
                     elements == SdElements(sd)
                 IN IF elements.st = "raise" THEN [st |-> "raise", recs |-> <<>>]
                    ELSE IF ~IsList(elements.els)
                    THEN [st |-> IF Truthy(elements.els) THEN "raise" ELSE "ok",
                          recs |-> <<>>]
                    ELSE IF \E n \in 1..Len(elements.els.v) : ~IsDict(elements.els.v[n])
                    THEN [st |-> "raise", recs |-> <<>>]
                    ELSE [st |-> "ok",
                          recs |-> ElementRecords(elements.els.v, sd_type, sd_title, sd_url)]

\* lines 168-173: the files of a package, as the two globs list them: every
\* file under the root (those under package/ included), then those under
\* package/ once more when that folder exists
SdFilesOf(pkg) ==
    pkg.root_files \o pkg.package_files
        \o (IF pkg.has_package_dir THEN pkg.package_files ELSE <<>>)

RECURSIVE ParseFiles(_)
ParseFiles(files) ==
    IF files = <<>> THEN [st |-> "ok", recs |-> <<>>]
    ELSE LET h == ParseFile(Head(files))
             t == ParseFiles(Tail(files))
         IN IF h.st = "raise" \/ t.st = "raise" THEN [st |-> "raise", recs |-> <<>>]
            ELSE [st |-> "ok", recs |-> h.recs \o t.recs]

\* lines 164-242
RECURSIVE parse_structure_definitions(_)
parse_structure_definitions(package_paths) ==
    IF package_paths = <<>> THEN [st |-> "ok", recs |-> <<>>]
    ELSE LET h == ParseFiles(SdFilesOf(Head(package_paths)))
             t == parse_structure_definitions(Tail(package_paths))
         IN IF h.st = "raise" \/ t.st = "raise" THEN [st |-> "raise", recs |-> <<>>]
            ELSE [st |-> "ok", recs |-> h.recs \o t.recs]

----------------------------------------------------------------------------
(* analyze_instances, src/main.py:12-75.                                    *)

HasCount(el) == "use_count" \in DOMAIN el

\* element['use_count'] = n
SetCount(el, n) == ("use_count" :> n) @@ el

\* mutant: use_count is set to 0 only where it is not set yet
ZeroCounts_KeepExisting(els) ==
    [j \in 1..Len(els) |-> IF HasCount(els[j]) THEN els[j] ELSE SetCount(els[j], 0)]

\* lines 22-23, 27-28 and 367-368: every use_count becomes 0
ZeroCounts(els) == [j \in 1..Len(els) |-> SetCount(els[j], 0)]

\* lines 46-48: what the loop does with one item of `entry`: "append",
\* "skip", or "raise" (TypeError)
EntryVerdict(entry) ==
    CASE IsDict(entry) -> IF HasKey(entry, s_resource) THEN "append" ELSE "skip"
      [] IsStr(entry) -> IF Contains(entry.v, s_resource) THEN "raise" ELSE "skip"
      [] IsList(entry) ->
            IF \E n \in 1..Len(entry.v) : entry.v[n] = Str(s_resource)
            THEN "raise" ELSE "skip"
      [] OTHER -> "raise"

RECURSIVE AppendedResources(_)
AppendedResources(entries) ==
    IF entries = <<>> THEN <<>>
    ELSE (IF EntryVerdict(Head(entries)) = "append"
          THEN <<Head(entries).v[s_resource]>> ELSE <<>>)
         \o AppendedResources(Tail(entries))

\* lines 44-51: the resources of a loaded file
FileResources(bundle_content) ==
    IF ~IsDict(bundle_content) THEN [st |-> "raise", resources |-> <<>>]
    ELSE IF Get(bundle_content, s_resourceType, null) # Str(s_Bundle)
    THEN [st |-> "ok", resources |-> <<bundle_content>>]
    ELSE LET entries == Get(bundle_content, s_entry, Arr(<<>>))
         IN CASE IsList(entries) ->
                   IF \E n \in 1..Len(entries.v) : EntryVerdict(entries.v[n]) = "raise"
                   THEN [st |-> "raise", resources |-> <<>>]
                   ELSE [st |-> "ok", resources |-> AppendedResources(entries.v)]
              [] IsDict(entries) ->
                   \* the loop runs over the keys, which are strings
                   IF \E key \in DOMAIN entries.v : Contains(key, s_resource)
                   THEN [st |-> "raise", resources |-> <<>>]
                   ELSE [st |-> "ok", resources |-> <<>>]
              [] IsStr(entries) -> [st |-> "ok", resources |-> <<>>]
              [] OTHER -> [st |-> "raise", resources |-> <<>>]

\* mutant: a populated element is counted twice
Incremented_Twice(el) == SetCount(el, el.use_count + 2)

\* line 64: element['use_count'] += 1
Incremented(el) == SetCount(el, el.use_count + 1)

\* lines 62-65: one (element, resource) pair: "count" (use_count += 1),
\* "pass", or "raise"
PairOutcome(el, res) ==
    IF ~IsDict(res) THEN "raise"
    ELSE IF Get(res, s_resourceType, null) # el.structure_definition_type THEN "pass"
    ELSE LET c == check_element_populated(res, el.element_path, el.extension_uri)
         IN IF c = "raise" THEN "raise" ELSE IF c = "true" THEN "count" ELSE "pass"

----------------------------------------------------------------------------
(* Inputs of the element loop.                                              *)

\* element paths: a resource type followed by up to MaxSegs - 1 segments
ElementPaths ==
    {Join(<<s_Patient>> \o p, DOT) :
        p \in SeqsOf({s_extension, s_extensions, s_value}, 0, MaxSegs - 1)}

\* `type` entries
TypeDefs ==
    {Obj(s_code :> Str(s_Extension)),
     Obj(s_code :> Str(s_Extension) @@ s_profile :> Arr(<<>>)),
     Obj(s_code :> Str(s_Extension) @@ s_profile :> Arr(<<Str(s_u_bp), Str(s_u_zz)>>)),
     Obj(s_code :> Str(s_Extension) @@ s_profile :> Arr(<<Str(s_o_bp)>>)),
     Obj(s_code :> Str(s_value) @@ s_profile :> Arr(<<Str(s_u_zz)>>))}

\* the optional keys of an element: sliceName, type, mustSupport
SliceKeys == {<<>>, s_sliceName :> Str(s_bp)}
TypeKeys == {<<>>} \cup {s_type :> Arr(t) : t \in SeqsOf(TypeDefs, 0, MaxArr)}
MustSupportKeys == {<<>>, s_mustSupport :> Bool(TRUE), s_mustSupport :> Bool(FALSE)}

Elements ==
    {Obj((s_path :> Str(p)) @@ sl @@ ty @@ ms) :
        p \in ElementPaths, sl \in SliceKeys, ty \in TypeKeys, ms \in MustSupportKeys}

Sd_Patient == Str(s_Patient)

----------------------------------------------------------------------------
(* The element loop as a state machine: one element, one action per branch. *)

ParseInit ==
    /\ element \in Elements
    /\ sd_record = <<>>
    /\ ppc = "element"
    /\ MatchIdle
    /\ MainIdle
    /\ GetterIdle

\* line 199, mustSupport absent or false: nothing is appended
SkipElement ==
    /\ ppc = "element"
    /\ ~IsMustSupport(element)
    /\ ppc' = "done"
    /\ UNCHANGED <<element, sd_record>>
    /\ UNCHANGED notParse

\* lines 212-232, an extension slice: the path is rewritten
AppendSliced ==
    /\ ppc = "element"
    /\ IsMustSupport(element)
    /\ IsSliced(element)
    /\ sd_record' = <<ElementRecord(element, Sd_Patient, Sd_Patient, Str(<<>>))>>
    /\ ppc' = "done"
    /\ UNCHANGED element
    /\ UNCHANGED notParse

\* lines 200-232, any other element: the path is recorded as it is
AppendPlain ==
    /\ ppc = "element"
    /\ IsMustSupport(element)
    /\ ~IsSliced(element)
    /\ sd_record' = <<ElementRecord(element, Sd_Patient, Sd_Patient, Str(<<>>))>>
    /\ ppc' = "done"
    /\ UNCHANGED element
    /\ UNCHANGED notParse

ParseNext == SkipElement \/ AppendSliced \/ AppendPlain

SpecParse == ParseInit /\ [][ParseNext]_vars

----------------------------------------------------------------------------
(* Inputs of check_element_populated.                                       *)

\* values of a `given` field
GivenVals == {null, Num(0), Str(<<>>), Arr(<<Str(s_Jo)>>)}

\* entries of a `name` array
NameEntries == {null, EmptyObj} \cup {Obj(s_given :> g) : g \in GivenVals}

\* values a path may end on
Leaves == {null, Bool(FALSE), Num(0), Str(<<>>), Str(<<" ">>), Str(s_Jo),
           Arr(<<>>), EmptyObj}

NameVals ==
    Leaves \cup {Obj(s_given :> g) : g \in GivenVals}
           \cup {Arr(a) : a \in SeqsOf(NameEntries, 0, MaxArr)}

FieldResources ==
    {Obj(s_resourceType :> Str(s_Patient) @@ s_name :> n) : n \in NameVals}
    \cup {Obj(s_name :> n) : n \in NameVals}

FieldPaths == {Join(p, DOT) : p \in SeqsOf({s_Patient, s_name, s_given}, 1, MaxSegs)}

\* values of an extension entry's url
ExtUrls == {null, Str(s_u_bp), Str(s_o_bp), Str(s_u_zz)}

\* entries of an `extension` array
ExtEntries ==
    {null, EmptyObj, Obj(s_sliceName :> Str(s_bp))}
    \cup {Obj(s_url :> u) : u \in ExtUrls}
    \cup {Obj(s_url :> u @@ s_sliceName :> Str(s_bp)) : u \in ExtUrls}

ExtVals == {null, EmptyObj} \cup {Arr(a) : a \in SeqsOf(ExtEntries, 0, MaxArr)}

ExtResources ==
    {Obj(s_resourceType :> Str(s_Patient))}
    \cup {Obj(s_resourceType :> Str(s_Patient) @@ s_extension :> e) : e \in ExtVals}

ExtPaths ==
    {Join(<<s_Patient, s_extension_colon \o s_bp>>, DOT),
     Join(<<s_extension_colon \o s_bp, s_url>>, DOT),
     Join(<<s_Patient, s_extension_colon \o s_bp, s_sliceName>>, DOT),
     Join(<<s_Patient, s_extension, s_url>>, DOT)}

ExtUris == {null, Str(<<>>), Str(s_u_bp), Str(s_u_zz)}

----------------------------------------------------------------------------
(* check_element_populated as a state machine: one action per branch of     *)
(* the loop body.                                                           *)

MatchInit ==
    /\ \/ /\ resource \in FieldResources
          /\ element_path \in FieldPaths
          /\ extension_uri = null
       \/ /\ resource \in ExtResources
          /\ element_path \in ExtPaths
          /\ extension_uri \in ExtUris
    /\ path_parts = <<>> /\ i = 0 /\ prev_obj = null /\ current_obj = null
    /\ stripped = FALSE /\ step_st = "none" /\ mpc = "split" /\ result = "none"
    /\ ParseIdle
    /\ MainIdle
    /\ GetterIdle

\* lines 83-87
SplitPath ==
    /\ mpc = "split"
    /\ path_parts' = PathParts(resource, element_path)
    /\ stripped' = DropsPrefix(resource, element_path)
    /\ current_obj' = resource
    /\ mpc' = "walk"
    /\ UNCHANGED <<resource, element_path, extension_uri, i, prev_obj, step_st, result>>
    /\ UNCHANGED notMatch

\* the effect of one loop iteration with outcome r
Iterate(r) ==
    /\ i' = i + 1
    /\ prev_obj' = current_obj
    /\ step_st' = r.st
    /\ current_obj' = IF r.st = "ok" THEN r.cur ELSE current_obj
    /\ mpc' = IF r.st = "ok" THEN "walk" ELSE "done"
    /\ result' = IF r.st = "ok" THEN "none" ELSE r.st
    /\ UNCHANGED <<resource, element_path, extension_uri, path_parts, stripped>>
    /\ UNCHANGED notMatch

InLoop == mpc = "walk" /\ i < Len(path_parts)

\* lines 90-91
NoneCursor ==
    /\ InLoop
    /\ IsNone(current_obj)
    /\ Iterate(Fail)

\* lines 94-119
ExtensionSlice ==
    /\ InLoop
    /\ ~IsNone(current_obj)
    /\ StartsWith(path_parts[i + 1], s_extension_colon)
    /\ Iterate(ExtensionSliceStep(current_obj, path_parts[i + 1], extension_uri))

\* lines 121-125
BareExtension ==
    /\ InLoop
    /\ ~IsNone(current_obj)
    /\ ~StartsWith(path_parts[i + 1], s_extension_colon)
    /\ path_parts[i + 1] = s_extension
    /\ Iterate(BareExtensionStep(current_obj))

\* lines 127-144
Field ==
    /\ InLoop
    /\ ~IsNone(current_obj)
    /\ ~StartsWith(path_parts[i + 1], s_extension_colon)
    /\ path_parts[i + 1] # s_extension
    /\ Iterate(FieldStep(current_obj, path_parts[i + 1]))

\* lines 146-154
FinalCheck ==
    /\ mpc = "walk"
    /\ i = Len(path_parts)
    /\ result' = BoolResult(IsPopulated(current_obj))
    /\ mpc' = "done"
    /\ UNCHANGED <<resource, element_path, extension_uri, path_parts, i, prev_obj,
                   current_obj, stripped, step_st>>
    /\ UNCHANGED notMatch

MatchNext == SplitPath \/ NoneCursor \/ ExtensionSlice \/ BareExtension \/ Field \/ FinalCheck

SpecMatch == MatchInit /\ [][MatchNext]_vars

\* the state machine computes what the function computes
MatchAgrees ==
    mpc = "done" => result = check_element_populated(resource, element_path, extension_uri)

----------------------------------------------------------------------------
(* Inputs of a run: packages and instance files.                            *)

MaxFiles == 2

El_name == Obj(s_path :> Str(Join(<<s_Patient, s_name>>, DOT))
               @@ s_mustSupport :> Bool(TRUE) @@ s_min :> Num(1) @@ s_max :> Str(<<"*">>))

El_birthPlace ==
    Obj(s_path :> Str(Join(<<s_Patient, s_extension>>, DOT))
        @@ s_sliceName :> Str(s_bp)
        @@ s_mustSupport :> Bool(TRUE)
        @@ s_type :> Arr(<<Obj(s_code :> Str(s_Extension)
                               @@ s_profile :> Arr(<<Str(s_u_bp)>>))>>))

El_value == Obj(s_path :> Str(Join(<<s_Patient, s_value>>, DOT)))

El_groupName == Obj(s_path :> Str(Join(<<s_Group, s_name>>, DOT))
                    @@ s_mustSupport :> Bool(TRUE))

\* a profile of Patient with a differential
SD_Patient ==
    Obj(s_resourceType :> Str(s_StructureDefinition)
        @@ s_type :> Str(s_Patient)
        @@ s_differential :> Obj(s_element :> Arr(<<El_name, El_birthPlace, El_value>>)))

\* a profile of Group with a snapshot only
SD_Group ==
    Obj(s_resourceType :> Str(s_StructureDefinition)
        @@ s_type :> Str(s_Group)
        @@ s_snapshot :> Obj(s_element :> Arr(<<El_groupName>>)))

\* a profile without mustSupport elements
SD_Plain ==
    Obj(s_resourceType :> Str(s_StructureDefinition)
        @@ s_type :> Str(s_Patient)
        @@ s_differential :> Obj(s_element :> Arr(<<El_value>>)))

SdFiles ==
    {OkFile(SD_Patient), OkFile(SD_Group), OkFile(SD_Plain),
     OkFile(Obj(s_resourceType :> Str(s_ValueSet))), OkFile(Arr(<<>>)),
     MalformedFile, UnreadableFile}

\* package folders: one candidate file, under package/ or beside it
Packages ==
    {[root_files |-> <<>>, has_package_dir |-> TRUE, package_files |-> <<f>>] :
        f \in SdFiles}
    \cup {[root_files |-> <<f>>, has_package_dir |-> FALSE, package_files |-> <<>>] :
        f \in {OkFile(SD_Patient), OkFile(SD_Group)}}
    \cup {[root_files |-> <<>>, has_package_dir |-> FALSE, package_files |-> <<>>]}

PackageLists ==
    SeqsOf(Packages, 0, 1)
    \cup {<<[root_files |-> <<OkFile(SD_Patient)>>, has_package_dir |-> FALSE,
            package_files |-> <<>>],
           [root_files |-> <<OkFile(SD_Group)>>, has_package_dir |-> FALSE,
            package_files |-> <<>>]>>}

\* the element lists parse_structure_definitions returns for them
ElementLists ==
    {parse_structure_definitions(pl).recs :
        pl \in {q \in PackageLists : parse_structure_definitions(q).st = "ok"}}

R_PatientFull ==
    Obj(s_resourceType :> Str(s_Patient)
        @@ s_name :> Arr(<<Obj(s_given :> Arr(<<Str(s_Jo)>>))>>)
        @@ s_extension :> Arr(<<Obj(s_url :> Str(s_u_bp))>>))

R_PatientEmpty == Obj(s_resourceType :> Str(s_Patient) @@ s_name :> Arr(<<>>))

R_Group == Obj(s_resourceType :> Str(s_Group) @@ s_name :> Str(s_g))

\* an extension entry whose url is null
R_PatientNullUrl ==
    Obj(s_resourceType :> Str(s_Patient)
        @@ s_extension :> Arr(<<Obj(s_url :> null)>>))

B_Mixed ==
    Obj(s_resourceType :> Str(s_Bundle)
        @@ s_entry :> Arr(<<Obj(s_resource :> R_PatientFull),
                            EmptyObj,
                            Obj(s_resource :> R_Group),
                            Obj(s_resource :> R_PatientEmpty)>>))

\* a Bundle entry whose resource is a string
B_StringResource ==
    Obj(s_resourceType :> Str(s_Bundle)
        @@ s_entry :> Arr(<<Obj(s_resource :> Str(s_g))>>))

InstanceFiles ==
    {OkFile(R_PatientFull), OkFile(B_Mixed), OkFile(R_PatientNullUrl),
     OkFile(B_StringResource), OkFile(Arr(<<>>)),
     MalformedFile, MissingFile, UnreadableFile}

InstanceDirs ==
    {[exists |-> FALSE, json_files |-> <<>>]}
    \cup {[exists |-> TRUE, json_files |-> fs] : fs \in SeqsOf(InstanceFiles, 0, MaxFiles)}

----------------------------------------------------------------------------
(* analyze_instances as a state machine: one action per file and per        *)
(* (element, resource) pair.                                                *)

\* lines 19-24: the directory is missing
AnalyzeMissingDir ==
    /\ pc = "analyze"
    /\ ~instances.exists
    /\ must_support_elements' = ZeroCounts(must_support_elements)
    /\ pc' = "analyzed"
    /\ UNCHANGED <<config_ok, cache_ok, staged, instances, write_ok, npm_path_list,
                   fi, resources, ei, ri, report, exit_status, run, first_run>>
    /\ UNCHANGED notMain

\* lines 26-34
AnalyzeStart ==
    /\ pc = "analyze"
    /\ instances.exists
    /\ must_support_elements' = ZeroCounts(must_support_elements)
    /\ fi' = 0 /\ resources' = <<>> /\ ei' = 1 /\ ri' = 1
    /\ pc' = "files"
    /\ UNCHANGED <<config_ok, cache_ok, staged, instances, write_ok, npm_path_list,
                   report, exit_status, run, first_run>>
    /\ UNCHANGED notMain

NextFile == instances.json_files[fi + 1]

\* lines 39-41 and 67-69: JSONDecodeError or FileNotFoundError, the file is
\* skipped
SkipFile ==
    /\ pc = "files"
    /\ fi < Len(instances.json_files)
    /\ NextFile.read \in {"malformed", "missing"}
    /\ fi' = fi + 1 /\ resources' = <<>> /\ ei' = 1 /\ ri' = 1
    /\ UNCHANGED <<config_ok, cache_ok, staged, instances, write_ok, pc, npm_path_list,
                   must_support_elements, report, exit_status, run, first_run>>
    /\ UNCHANGED notMain

\* lines 39-53: the file is loaded and its resources extracted
LoadFile ==
    /\ pc = "files"
    /\ fi < Len(instances.json_files)
    /\ NextFile.read = "ok"
    /\ FileResources(NextFile.content).st = "ok"
    /\ fi' = fi + 1
    /\ resources' = FileResources(NextFile.content).resources
    /\ ei' = 1 /\ ri' = 1
    /\ pc' = "pairs"
    /\ UNCHANGED <<config_ok, cache_ok, staged, instances, write_ok, npm_path_list,
                   must_support_elements, report, exit_status, run, first_run>>
    /\ UNCHANGED notMain

\* lines 39-51: an exception the handler at line 67 does not name leaves
\* analyze_instances
LoadRaises ==
    /\ pc = "files"
    /\ fi < Len(instances.json_files)
    /\ \/ NextFile.read = "unreadable"
       \/ NextFile.read = "ok" /\ FileResources(NextFile.content).st = "raise"
    /\ fi' = fi + 1 /\ resources' = <<>> /\ ei' = 1 /\ ri' = 1
    /\ pc' = "raised"
    /\ UNCHANGED <<config_ok, cache_ok, staged, instances, write_ok, npm_path_list,
                   must_support_elements, report, exit_status, run, first_run>>
    /\ UNCHANGED notMain

PairsLeft == ei <= Len(must_support_elements) /\ resources # <<>>

\* lines 56-65: one (element, resource) pair
CheckPair ==
    /\ pc = "pairs"
    /\ PairsLeft
    /\ LET outcome == PairOutcome(must_support_elements[ei], resources[ri])
       IN /\ must_support_elements' =
                IF outcome = "count"
                THEN [must_support_elements EXCEPT ![ei] = Incremented(@)]
                ELSE must_support_elements
          /\ pc' = IF outcome = "raise" THEN "raised" ELSE "pairs"
          /\ IF outcome = "raise" THEN UNCHANGED <<ei, ri>>
             ELSE IF ri < Len(resources) THEN ri' = ri + 1 /\ UNCHANGED ei
             ELSE ri' = 1 /\ ei' = ei + 1
    /\ UNCHANGED <<config_ok, cache_ok, staged, instances, write_ok, npm_path_list,
                   fi, resources, report, exit_status, run, first_run>>
    /\ UNCHANGED notMain

\* line 36: the loops over one file are done
EndFile ==
    /\ pc = "pairs"
    /\ ~PairsLeft
    /\ pc' = "files"
    /\ UNCHANGED <<config_ok, cache_ok, staged, instances, write_ok, npm_path_list,
                   must_support_elements, fi, resources, ei, ri, report, exit_status,
                   run, first_run>>
    /\ UNCHANGED notMain

\* lines 71-75
AnalyzeReturn ==
    /\ pc = "files"
    /\ fi = Len(instances.json_files)
    /\ pc' = "analyzed"
    /\ UNCHANGED <<config_ok, cache_ok, staged, instances, write_ok, npm_path_list,
                   must_support_elements, fi, resources, ei, ri, report, exit_status,
                   run, first_run>>
    /\ UNCHANGED notMain

\* analyze_instances is called a second time on the list the first call left
CallAgain ==
    /\ pc \in {"analyzed", "raised"}
    /\ run = 1
    /\ run' = 2
    /\ first_run' = must_support_elements
    /\ pc' = "analyze"
    /\ UNCHANGED <<config_ok, cache_ok, staged, instances, write_ok, npm_path_list,
                   must_support_elements, fi, resources, ei, ri, report, exit_status>>
    /\ UNCHANGED notMain

AnalyzeInit ==
    /\ config_ok = TRUE /\ cache_ok = TRUE /\ staged = <<>> /\ write_ok = TRUE
    /\ instances \in InstanceDirs
    /\ must_support_elements \in ElementLists
    /\ pc = "analyze" /\ npm_path_list = <<>>
    /\ fi = 0 /\ resources = <<>> /\ ei = 1 /\ ri = 1 /\ report = <<>>
    /\ exit_status = "running" /\ run = 1 /\ first_run = <<>>
    /\ MatchIdle
    /\ ParseIdle
    /\ GetterIdle

AnalyzeNext ==
    \/ AnalyzeMissingDir \/ AnalyzeStart \/ SkipFile \/ LoadFile \/ LoadRaises
    \/ CheckPair \/ EndFile \/ AnalyzeReturn \/ CallAgain

SpecAnalyze == AnalyzeInit /\ [][AnalyzeNext]_vars

----------------------------------------------------------------------------
(* main, src/main.py:286-379, and write_must_support_tsv, 244-284.          *)

Header ==
    <<"Resource Type", "Profile Name", "Element", "Cardinality", "Use Count">>

\* lines 270-277: the row of one element
Row(el) ==
    <<el.structure_definition_type, el.profile_name, el.element_path,
      el.cardinality, IF HasCount(el) THEN el.use_count ELSE 0>>

\* lines 261-277: the rows of the file
ReportRows(els) == <<Header>> \o [j \in 1..Len(els) |-> Row(els[j])]

mainFrame == <<config_ok, cache_ok, staged, instances, write_ok, fi, resources, ei, ri,
               run, first_run>>

\* lines 333-336
ConfigRead ==
    /\ pc = "config"
    /\ config_ok
    /\ pc' = "packages"
    /\ UNCHANGED <<mainFrame, npm_path_list, must_support_elements, report, exit_status>>
    /\ UNCHANGED notMain

\* lines 337-339
ConfigFails ==
    /\ pc = "config"
    /\ ~config_ok
    /\ pc' = "exit" /\ exit_status' = "1"
    /\ UNCHANGED <<mainFrame, npm_path_list, must_support_elements, report>>
    /\ UNCHANGED notMain

\* lines 342-345
GetPackages ==
    /\ pc = "packages"
    /\ cache_ok
    /\ npm_path_list' = staged
    /\ pc' = "parse"
    /\ UNCHANGED <<mainFrame, must_support_elements, report, exit_status>>
    /\ UNCHANGED notMain

\* lines 346-348
PackagesFail ==
    /\ pc = "packages"
    /\ ~cache_ok
    /\ pc' = "exit" /\ exit_status' = "1"
    /\ UNCHANGED <<mainFrame, npm_path_list, must_support_elements, report>>
    /\ UNCHANGED notMain

\* lines 351-354
ParseDefinitions ==
    /\ pc = "parse"
    /\ parse_structure_definitions(npm_path_list).st = "ok"
    /\ must_support_elements' = parse_structure_definitions(npm_path_list).recs
    /\ pc' = "analyze"
    /\ UNCHANGED <<mainFrame, npm_path_list, report, exit_status>>
    /\ UNCHANGED notMain

\* lines 355-357
ParseRaises ==
    /\ pc = "parse"
    /\ parse_structure_definitions(npm_path_list).st = "raise"
    /\ pc' = "exit" /\ exit_status' = "1"
    /\ UNCHANGED <<mainFrame, npm_path_list, must_support_elements, report>>
    /\ UNCHANGED notMain

\* lines 362-363
AnalysisDone ==
    /\ pc = "analyzed"
    /\ pc' = "write"
    /\ UNCHANGED <<mainFrame, npm_path_list, must_support_elements, report, exit_status>>
    /\ UNCHANGED notMain

\* lines 364-368
AnalysisFailed ==
    /\ pc = "raised"
    /\ must_support_elements' = ZeroCounts(must_support_elements)
    /\ pc' = "write"
    /\ UNCHANGED <<mainFrame, npm_path_list, report, exit_status>>
    /\ UNCHANGED notMain

\* lines 250-252: nothing to write, no file is opened
WriteNothing ==
    /\ pc = "write"
    /\ must_support_elements = <<>>
    /\ pc' = "finish"
    /\ UNCHANGED <<mainFrame, npm_path_list, must_support_elements, report, exit_status>>
    /\ UNCHANGED notMain

\* lines 254-280
WriteReport ==
    /\ pc = "write"
    /\ must_support_elements # <<>>
    /\ write_ok
    /\ report' = ReportRows(must_support_elements)
    /\ pc' = "finish"
    /\ UNCHANGED <<mainFrame, npm_path_list, must_support_elements, exit_status>>
    /\ UNCHANGED notMain

\* lines 282-284 and 375-377
WriteFails ==
    /\ pc = "write"
    /\ must_support_elements # <<>>
    /\ ~write_ok
    /\ pc' = "exit" /\ exit_status' = "1"
    /\ UNCHANGED <<mainFrame, npm_path_list, must_support_elements, report>>
    /\ UNCHANGED notMain

\* lines 373-379
Finish ==
    /\ pc = "finish"
    /\ pc' = "exit" /\ exit_status' = "0"
    /\ UNCHANGED <<mainFrame, npm_path_list, must_support_elements, report>>
    /\ UNCHANGED notMain

Init ==
    /\ config_ok \in BOOLEAN /\ cache_ok \in BOOLEAN /\ write_ok \in BOOLEAN
    /\ staged \in PackageLists
    /\ instances \in InstanceDirs
    /\ pc = "config" /\ npm_path_list = <<>> /\ must_support_elements = <<>>
    /\ fi = 0 /\ resources = <<>> /\ ei = 1 /\ ri = 1 /\ report = <<>>
    /\ exit_status = "running" /\ run = 1 /\ first_run = <<>>
    /\ MatchIdle
    /\ ParseIdle
    /\ GetterIdle

Next ==
    \/ ConfigRead \/ ConfigFails \/ GetPackages \/ PackagesFail
    \/ ParseDefinitions \/ ParseRaises
    \/ AnalyzeMissingDir \/ AnalyzeStart \/ SkipFile \/ LoadFile \/ LoadRaises
    \/ CheckPair \/ EndFile \/ AnalyzeReturn
    \/ AnalysisDone \/ AnalysisFailed
    \/ WriteNothing \/ WriteReport \/ WriteFails \/ Finish

Spec == Init /\ [][Next]_vars

----------------------------------------------------------------------------
(* Claims about analyze_instances and main.                                 *)

\* the resources analyze_instances extracts from the k-th file
LoadedResources(k) ==
    LET f == instances.json_files[k]
    IN IF f.read = "ok" /\ FileResources(f.content).st = "ok"
       THEN FileResources(f.content).resources
       ELSE <<>>

\* how many of the resources rs have the element's resource type
Matching(el, rs) ==
    Cardinality({n \in 1..Len(rs) :
                    /\ IsDict(rs[n])
                    /\ Get(rs[n], s_resourceType, null) = el.structure_definition_type})

\* ... over the first k files
RECURSIVE MatchingInFiles(_, _)
MatchingInFiles(el, k) ==
    IF k <= 0 THEN 0 ELSE MatchingInFiles(el, k - 1) + Matching(el, LoadedResources(k))

\* the resources of the last file opened that the j-th element was checked
\* against
PairedWith(j) ==
    IF j < ei THEN resources
    ELSE IF j = ei THEN SubSeq(resources, 1, ri - 1)
    ELSE <<>>

\* C6: during and after analyze_instances every use_count is a non-negative
\* integer that does not exceed the number of resources processed so far with
\* the element's resource type; it is raised at most once per (element,
\* resource) pair.
C6_CountBound ==
    \A j \in 1..Len(must_support_elements) :
        LET el == must_support_elements[j]
        IN HasCount(el) =>
             /\ el.use_count \in Nat
             /\ el.use_count <= MatchingInFiles(el, fi - 1) + Matching(el, PairedWith(j))
             /\ el.use_count <= MatchingInFiles(el, fi)

\* C6 witness: after the analysis an element is counted at least once and less
\* often than there are resources of its type
C6_Witness ==
    /\ pc = "analyzed"
    /\ \E j \in 1..Len(must_support_elements) :
          /\ must_support_elements[j].use_count >= 1
          /\ must_support_elements[j].use_count
                < MatchingInFiles(must_support_elements[j], fi)

\* C7: a second run of analyze_instances on the same list and the same
\* directory leaves every use_count as the first run left it; with the
\* directory missing every count is 0.
C7_Idempotent ==
    /\ (run = 2 /\ pc \in {"analyzed", "raised"}) => must_support_elements = first_run
    /\ (pc = "analyzed" /\ ~instances.exists) =>
          \A j \in 1..Len(must_support_elements) : must_support_elements[j].use_count = 0

\* C7 witness: the second run returned and an element is counted twice
C7_Witness ==
    /\ run = 2
    /\ pc = "analyzed"
    /\ \E j \in 1..Len(must_support_elements) : must_support_elements[j].use_count = 2

\* a file analyze_instances cannot process: it cannot be read, or its root,
\* its entries or one of its resources is not what the code expects
Unprocessable(file) ==
    \/ file.read # "ok"
    \/ FileResources(file.content).st = "raise"
    \/ \E j \in 1..Len(must_support_elements) :
         \E n \in 1..Len(FileResources(file.content).resources) :
            PairOutcome(must_support_elements[j],
                        FileResources(file.content).resources[n]) = "raise"

\* the number of resources of a file in which the element is populated
PopulatedIn(el, file) ==
    IF Unprocessable(file) THEN 0
    ELSE Cardinality({n \in 1..Len(FileResources(file.content).resources) :
            PairOutcome(el, FileResources(file.content).resources[n]) = "count"})

RECURSIVE CountFromProcessable(_, _)
CountFromProcessable(el, k) ==
    IF k <= 0 THEN 0
    ELSE CountFromProcessable(el, k - 1) + PopulatedIn(el, instances.json_files[k])

\* C8: a file that cannot be processed is skipped at the file boundary; the
\* counts reported equal the counts obtained from the other files alone.
C8_BadFileSkipped ==
    (pc \in {"write", "finish"} /\ instances.exists) =>
        \A j \in 1..Len(must_support_elements) :
            must_support_elements[j].use_count =
                CountFromProcessable(must_support_elements[j], Len(instances.json_files))

\* C10: every run of main that passes setup ends with the report written,
\* header and one row per element in parse order, also when nothing was
\* gathered or the analysis failed; only setup failures end with status 1.
C10_ReportAlwaysWritten ==
    (pc = "exit" /\ config_ok /\ cache_ok /\ write_ok) =>
        /\ exit_status = "0"
        /\ report = ReportRows(must_support_elements)

----------------------------------------------------------------------------
(* Claims about check_element_populated.                                    *)

\* the segment consumed by the last loop iteration
LastPart == path_parts[i]

\* the last loop iteration handled an `extension:<sliceName>` segment on an
\* object whose `extension` is an array
AfterSliceStep ==
    /\ i >= 1
    /\ StartsWith(LastPart, s_extension_colon)
    /\ IsDict(prev_obj)
    /\ IsList(Get(prev_obj, s_extension, Arr(<<>>)))

\* positions of the entries whose url equals the supplied extensionUri
UriHits(exts, uri) ==
    {n \in 1..Len(exts) : /\ IsDict(exts[n])
                          /\ Truthy(uri)
                          /\ Get(exts[n], s_url, null) = uri}

\* positions of the entries that match by name
NameHits(exts, sliceName) ==
    {n \in 1..Len(exts) :
        /\ IsDict(exts[n])
        /\ \/ /\ IsStr(Get(exts[n], s_url, null))
              /\ EndsWith(Get(exts[n], s_url, null).v, sliceName)
           \/ Get(exts[n], s_sliceName, null) = Str(sliceName)}

\* C1: for a segment extension:<sliceName>, the new cursor is the first entry
\* whose url equals extensionUri whenever such an entry exists anywhere in the
\* array, wherever the entries that match only by name stand; only when no
\* entry's url equals extensionUri is the first name-matching entry taken.
\* (Stated for the iterations that did not raise.)
C1_UriPriority ==
    (AfterSliceStep /\ step_st # "raise") =>
        LET exts == Get(prev_obj, s_extension, Arr(<<>>)).v
            sliceName == SubSeq(LastPart, Len(s_extension_colon) + 1, Len(LastPart))
            byUri == UriHits(exts, extension_uri)
            byName == NameHits(exts, sliceName)
        IN IF byUri # {}
           THEN step_st = "ok" /\ current_obj = exts[Least(byUri)]
           ELSE IF byName # {}
           THEN step_st = "ok" /\ current_obj = exts[Least(byName)]
           ELSE step_st = "false"

\* C2: check_element_populated never raises; a structural mismatch yields
\* false.
C2_NeverRaises == result # "raise"

\* the last loop iteration handled a plain field-name segment
AfterFieldStep ==
    /\ i >= 1
    /\ ~StartsWith(LastPart, s_extension_colon)
    /\ LastPart # s_extension

Ex_NameGivenJo ==
    Obj(s_resourceType :> Str(s_Patient)
        @@ s_name :> Arr(<<Obj(s_given :> Arr(<<Str(s_Jo)>>))>>))

Ex_NameEmpty == Obj(s_resourceType :> Str(s_Patient) @@ s_name :> Arr(<<>>))

Path_Patient_name_given == Join(<<s_Patient, s_name, s_given>>, DOT)

\* C3: for a plain field-name segment, on an array cursor the new cursor is
\* the field's value in the first entry that is an object containing the
\* field, and the match fails when no entry contains it; on an object cursor
\* the field must be a key and its value becomes the cursor, else false; on a
\* scalar or null cursor the result is false.  Patient.name.given is populated
\* for name=[{given:["Jo"]}] and not populated for name=[].
C3_FieldSegment ==
    /\ AfterFieldStep =>
         IF IsList(prev_obj)
         THEN LET has == {n \in 1..Len(prev_obj.v) :
                            IsDict(prev_obj.v[n]) /\ LastPart \in DOMAIN prev_obj.v[n].v}
              IN IF has = {}
                 THEN step_st = "false" /\ result = "false"
                 ELSE /\ step_st = "ok"
                      /\ current_obj = prev_obj.v[Least(has)].v[LastPart]
         ELSE IF IsDict(prev_obj)
         THEN IF LastPart \in DOMAIN prev_obj.v
              THEN step_st = "ok" /\ current_obj = prev_obj.v[LastPart]
              ELSE step_st = "false" /\ result = "false"
         ELSE step_st = "false" /\ result = "false"
    /\ (mpc = "done" /\ element_path = Path_Patient_name_given) =>
         /\ resource = Ex_NameGivenJo => result = "true"
         /\ resource = Ex_NameEmpty => result = "false"

\* C3 witness: the field is found in the second entry of an array whose first
\* entry does not contain it
C3_Witness ==
    /\ AfterFieldStep
    /\ IsList(prev_obj)
    /\ Len(prev_obj.v) = 2
    /\ ~(IsDict(prev_obj.v[1]) /\ HasKey(prev_obj.v[1], LastPart))
    /\ step_st = "ok"
    /\ current_obj = prev_obj.v[2].v[LastPart]

\* every segment was walked and the final test was made
WalkSucceeded == mpc = "done" /\ step_st = "ok"

WhitespaceOnly(str) == \A n \in 1..Len(str) : str[n] \in {" ", "\t", "\n"}

\* C4: when the walk of all segments succeeds, the result is true iff the
\* final cursor is not null, not an empty or whitespace-only string and not
\* an empty array; 0, false, any object and any non-empty array are populated.
C4_FinalValue ==
    WalkSucceeded =>
        /\ result \in {"true", "false"}
        /\ result = "true" <=>
              /\ ~IsNone(current_obj)
              /\ ~(IsStr(current_obj) /\ WhitespaceOnly(current_obj.v))
              /\ ~(IsList(current_obj) /\ current_obj.v = <<>>)
        /\ current_obj \in {Num(0), Bool(FALSE), EmptyObj} => result = "true"
        /\ (IsDict(current_obj) \/ (IsList(current_obj) /\ Len(current_obj.v) > 0))
              => result = "true"

\* C4 witness: a walk that ends on the number 0 and reports populated
C4_Witness == WalkSucceeded /\ current_obj = Num(0) /\ result = "true"

\* the path starts with the resource's own resourceType
FirstIsResourceType ==
    Str(Split(element_path, DOT)[1]) = Get(resource, s_resourceType, null)

\* C5: for every path, of any number of segments (a path that is just the
\* resource type included), whose first segment equals resourceType, that
\* segment is dropped and the remaining segments are walked from the resource.
C5_PrefixDropped ==
    (mpc # "split" /\ FirstIsResourceType) =>
        /\ path_parts = Tail(Split(element_path, DOT))
        /\ mpc = "done" =>
             result = WalkParts(resource, Tail(Split(element_path, DOT)), extension_uri)

----------------------------------------------------------------------------
(* Claims about parse_structure_definitions.                                *)

\* positions of the segments of a path that are exactly `extension`
ExtensionSegments(path) ==
    {n \in 1..Len(Split(path, DOT)) : Split(path, DOT)[n] = s_extension}

\* C9: a mustSupport element's path is rewritten to
\* <path before the first extension segment>.extension:<sliceName>, with
\* extension_uri the first profile of the first Extension type that has a
\* non-empty profile array (else absent), exactly when the element declares a
\* sliceName and its path contains `extension` as a whole dot-separated
\* segment; every other mustSupport element keeps its path and has no
\* extension_uri.
C9_RewriteRule ==
    (ppc = "done" /\ sd_record # <<>>) =>
        LET path == RawPath(element)
            segs == Split(path, DOT)
            at == ExtensionSegments(path)
        IN IF HasKey(element, s_sliceName) /\ at # {}
           THEN /\ sd_record[1].element_path =
                     Join(SubSeq(segs, 1, Least(at) - 1), DOT)
                        \o DOT \o s_extension_colon \o element.v[s_sliceName].v
                /\ sd_record[1].extension_uri = ExtensionUriOf(element)
           ELSE /\ sd_record[1].element_path = path
                /\ sd_record[1].extension_uri = null

----------------------------------------------------------------------------
(* get_fhir_packages (src/getter.py:12-94).                                 *)
(* A folder is known by its basename, a string; the cache root is the       *)
(* sequence of its folders in the order glob lists them.                    *)

HASH == <<"#">>

AliasTokens == {<<"d", "e", "v">>, <<"c", "u", "r", "r", "e", "n", "t">>,
                <<"c", "i", "b", "u", "i", "l", "d">>}

\* f"{name}#{version}" (lines 52, 73)
PackagePattern(name, version) == name \o HASH \o version

\* os.path.exists of a folder of the cache root
InCache(c, base) == \E k \in 1..Len(c) : c[k].base = base

\* glob.glob(f"{name}#*") (line 58)
MatchingPackages(c, name) ==
    SelectSeq(c, LAMBDA f : StartsWith(f.base, name \o HASH))

\* lines 59-65: the first listed folder whose basename ends in #<version>
AliasMatch(matching, version, path) ==
    LET hits == {k \in 1..Len(matching) :
                    EndsWith(matching[k].base, HASH \o version)}
    IN IF version \in AliasTokens /\ hits # {}
       THEN matching[Least(hits)].base
       ELSE path

\* lines 69-70: a stable sort on mtime, newest first, and its first entry
MostRecent(matching) ==
    LET newest == {k \in 1..Len(matching) :
                     \A j \in 1..Len(matching) : matching[j].mtime <= matching[k].mtime}
    IN matching[Least(newest)].base

\* lines 52-71: the value of cache_package_path at line 73
SelectedFolder(c, name, version) ==
    LET exact == PackagePattern(name, version)
        matching == MatchingPackages(c, name)
        aliased == AliasMatch(matching, version, exact)
    IN IF InCache(c, exact) THEN exact
       ELSE IF ~InCache(c, aliased) /\ matching # <<>>
            THEN MostRecent(matching)
            ELSE aliased

InLocal(base) == \E d \in local : d.base = base

----------------------------------------------------------------------------
(* Inputs of get_fhir_packages.                                             *)

MaxPkgs == 2
MaxCache == 2

n_p == <<"p">>
n_q == <<"q">>
v_1 == <<"1">>
v_2 == <<"2">>
v_dev == <<"d", "e", "v">>
v_current == <<"c", "u", "r", "r", "e", "n", "t">>
v_2_dev == v_2 \o HASH \o v_dev

ConfigPackages == [name : {n_p, n_q}, version : {v_1, v_dev, v_current}]

CacheBases ==
    {PackagePattern(n_p, v) : v \in {v_1, v_2, v_dev, v_2_dev}}
        \cup {PackagePattern(n_q, v_1)}

CacheFolders == [base : CacheBases, mtime : 1..2]

\* a directory listing: no basename twice
CacheListings ==
    {c \in SeqsOf(CacheFolders, 0, MaxCache) :
        \A j, k \in 1..Len(c) : c[j].base = c[k].base => j = k}

OldLocals == SUBSET {[base |-> PackagePattern(n_p, v_1), from |-> <<>>]}

----------------------------------------------------------------------------
(* get_fhir_packages as a state machine.                                    *)

GetterInit ==
    /\ packages \in SeqsOf(ConfigPackages, 0, MaxPkgs)
    /\ fhir_cache_exists \in BOOLEAN
    /\ cache \in (IF fhir_cache_exists THEN CacheListings ELSE {<<>>})
    /\ mode \in {"clean", "keep"}
    /\ local \in OldLocals
    /\ gi = 1 /\ cache_package_path = <<>> /\ path_list = <<>>
    /\ gpc = "setup"
    /\ MatchIdle
    /\ ParseIdle
    /\ MainIdle

\* lines 25-26
CacheRootMissing ==
    /\ gpc = "setup"
    /\ ~fhir_cache_exists
    /\ gpc' = "raised"
    /\ UNCHANGED <<packages, fhir_cache_exists, cache, mode, local, gi,
                   cache_package_path, path_list>>
    /\ UNCHANGED notGetter

\* lines 29-42: in clean mode rmtree removes the local folders, or fails part way
PrepareLocal ==
    /\ gpc = "setup"
    /\ fhir_cache_exists
    /\ local' \in (IF mode = "clean" THEN SUBSET local ELSE {local})
    /\ gpc' = "loop"
    /\ UNCHANGED <<packages, fhir_cache_exists, cache, mode, gi,
                   cache_package_path, path_list>>
    /\ UNCHANGED notGetter

\* lines 45-73
SelectFolder ==
    /\ gpc = "loop"
    /\ gi <= Len(packages)
    /\ cache_package_path' =
           SelectedFolder(cache, packages[gi].name, packages[gi].version)
    /\ gpc' = "stage"
    /\ UNCHANGED <<packages, fhir_cache_exists, cache, mode, local, gi, path_list>>
    /\ UNCHANGED notGetter

\* lines 75-78
SkipPackage ==
    /\ gpc = "stage"
    /\ ~InCache(cache, cache_package_path)
    /\ gi' = gi + 1
    /\ gpc' = "loop"
    /\ UNCHANGED <<packages, fhir_cache_exists, cache, mode, local,
                   cache_package_path, path_list>>
    /\ UNCHANGED notGetter

\* lines 81-85 and 92
CopyPackage ==
    LET base == PackagePattern(packages[gi].name, packages[gi].version)
    IN /\ gpc = "stage"
       /\ InCache(cache, cache_package_path)
       /\ ~InLocal(base)
       /\ local' = local \cup {[base |-> base, from |-> cache_package_path]}
       /\ path_list' = Append(path_list, base)
       /\ gi' = gi + 1
       /\ gpc' = "loop"
       /\ UNCHANGED <<packages, fhir_cache_exists, cache, mode, cache_package_path>>
       /\ UNCHANGED notGetter

\* lines 86-88
CopyFails ==
    LET base == PackagePattern(packages[gi].name, packages[gi].version)
    IN /\ gpc = "stage"
       /\ InCache(cache, cache_package_path)
       /\ ~InLocal(base)
       /\ gi' = gi + 1
       /\ gpc' = "loop"
       /\ UNCHANGED <<packages, fhir_cache_exists, cache, mode, local,
                      cache_package_path, path_list>>
       /\ UNCHANGED notGetter

\* lines 89-92
UseExisting ==
    LET base == PackagePattern(packages[gi].name, packages[gi].version)
    IN /\ gpc = "stage"
       /\ InCache(cache, cache_package_path)
       /\ InLocal(base)
       /\ path_list' = Append(path_list, base)
       /\ gi' = gi + 1
       /\ gpc' = "loop"
       /\ UNCHANGED <<packages, fhir_cache_exists, cache, mode, local,
                      cache_package_path>>
       /\ UNCHANGED notGetter

\* line 94
GetterReturn ==
    /\ gpc = "loop"
    /\ gi > Len(packages)
    /\ gpc' = "done"
    /\ UNCHANGED <<packages, fhir_cache_exists, cache, mode, local, gi,
                   cache_package_path, path_list>>
    /\ UNCHANGED notGetter

GetterNext ==
    \/ CacheRootMissing \/ PrepareLocal \/ SelectFolder \/ SkipPackage
    \/ CopyPackage \/ CopyFails \/ UseExisting \/ GetterReturn

SpecGetter == GetterInit /\ [][GetterNext]_vars

----------------------------------------------------------------------------
(* Claims about get_fhir_packages.                                          *)

\* the package the loop is at, and the folder name#version it asks for
CurrentPackage == packages[gi]
ExactFolder == PackagePattern(CurrentPackage.name, CurrentPackage.version)

\* a folder of the cache other than name#version was selected
Substituted ==
    /\ gpc = "stage"
    /\ InCache(cache, cache_package_path)
    /\ cache_package_path # ExactFolder

\* the packages before position k for which no folder name#* is in the cache
Unresolvable(k) ==
    {PackagePattern(packages[j].name, packages[j].version) :
        j \in {q \in 1..(k - 1) : MatchingPackages(cache, packages[q].name) = <<>>}}

\* C11: for each configured package, in config order: an exact folder
\* name#version of the cache is the one selected and copied; a folder of
\* another version is substituted only when version is dev, current or
\* cibuild; a package for which no folder is selected is left out of the
\* returned list, and the packages after it are still processed.
C11_FolderSelection ==
    /\ (gpc = "stage" /\ InCache(cache, ExactFolder)) =>
           cache_package_path = ExactFolder
    /\ Substituted => CurrentPackage.version \in AliasTokens
    /\ \A d \in local :
           (d.from # <<>> /\ InCache(cache, d.base)) => d.from = d.base
    /\ gpc \in {"loop", "stage", "done"} =>
           \A k \in 1..Len(path_list) : path_list[k] \notin Unresolvable(gi)
    /\ gpc = "done" => gi = Len(packages) + 1

----------------------------------------------------------------------------
(* Claims about the files parse_structure_definitions reads.                *)

\* the StructureDefinition files found under a package root, each once
FoundFiles(pkg) == pkg.root_files \o pkg.package_files

\* the number of records the element declarations of these packages come
\* to when every file found is processed once
RECURSIVE DeclaredRecords(_)
DeclaredRecords(package_paths) ==
    IF package_paths = <<>> THEN 0
    ELSE Len(ParseFiles(FoundFiles(Head(package_paths))).recs)
             + DeclaredRecords(Tail(package_paths))

\* main has the list parse_structure_definitions returned
Parsed == pc \in {"analyze", "files", "pairs", "raised", "analyzed", "write", "finish"}

\* C12: every StructureDefinition file found under a package root is
\* processed exactly once: the returned list holds one record per mustSupport
\* element declaration, and the report one row per declaration, also when
\* the files are in a package subfolder of the package root.
C12_EachFileOnce ==
    /\ Parsed => Len(must_support_elements) = DeclaredRecords(npm_path_list)
    /\ report # <<>> => Len(report) = 1 + DeclaredRecords(npm_path_list)

====
